---- MODULE Spec2Model ----
(***************************************************************************)
(* Verification model of the ensemble distillation repository:             *)
(*   src/src/distilled/logits_probability_distribution.py                  *)
(*   src/src/dataloaders/cifar10_ensemble_pred.py                          *)
(*   src/src/experiments/mnist_ensemble_test.py                            *)
(*   src/src/dataloaders/gaussian_sinus.py                                 *)
(*                                                                         *)
(* Numbers.  Tensor entries are fixed-point decimals.  Network inputs,     *)
(* weights, pre-activations and teacher logits are whole numbers; the      *)
(* variance, the Gaussian noise, the samples and exp() are held in units   *)
(* of 1/ONE.  A probability is held exactly, as a numerator over the       *)
(* draw's common denominator, so that sums over the class axis are exact.  *)
(* All values stay inside the range where exp() is finite.                 *)
(***************************************************************************)
EXTENDS Integers, Sequences, FiniteSets, TLC

VARIABLES
    state,                  \* "new" before __init__, "constructed" after it
    layer_sizes,            \* constructor argument
    scale_teacher_logits,   \* self.scale_teacher_logits
    layers,                 \* self.layers: the Linear modules' weights and biases
    optimizer,              \* the parameters handed to Adam: names of modules
    teacher,                \* the teacher's parameters (per member, per class)
    ret,                    \* the call that has just returned and its result, until the caller takes it
    cstate,                 \* Cifar10Data: "new", "constructed", or "raised" when __init__ raised
    cset,                   \* Cifar10Data.set, a CustomSet
    cret,                   \* the CustomSet call that has just returned, and its result
    mret,                   \* uncertainty_rotation: the series it has plotted
    file,                   \* GaussianSinus: the csv file at store_file
    sstate,                 \* GaussianSinus: "new", "constructed", or "raised" when __init__ raised
    dataset,                \* GaussianSinus: the object's n_samples and train
    sret                    \* the GaussianSinus call that has just returned, and its result

netVars == <<state, layer_sizes, scale_teacher_logits, layers, optimizer, teacher, ret>>

cifarVars == <<cstate, cset, cret>>

metricVars == <<mret>>

sinusVars == <<file, sstate, dataset, sret>>

vars == <<netVars, cifarVars, metricVars, sinusVars>>

(***************************** bounds ***************************************)
MaxBatch == 2
MaxSamples == 2

(***************************** numbers **************************************)
ONE == 10 * 100

RECURSIVE SeqSum(_)
SeqSum(s) ==
    IF s = <<>> THEN 0 ELSE s[1] + SeqSum(Tail(s))

Last(s) == s[Len(s)]

Dot(w, x) == SeqSum([c \in 1..Len(w) |-> w[c] * x[c]])

\* round(ONE * ln(1 + e^(-a))) for a = 0, 1, ..., 7; below 1/(2 ONE) for a >= 8
LogOnePlusExpNeg(a) ==
    IF a > 7 THEN 0 ELSE <<693, 313, 127, 49, 18, 7, 2, 1>>[a + 1]

\* torch.log(1 + torch.exp(z)) for a whole z, in units of 1/ONE
Softplus(z) ==
    IF z >= 0 THEN z * ONE + LogOnePlusExpNeg(z) ELSE LogOnePlusExpNeg(-z)

\* round(ONE * e^q) for a whole q
ExpInt(q) ==
    IF q < -7 THEN 0
    ELSE IF q < 0 THEN <<1, 2, 7, 18, 50, 135, 368>>[q + 8]
    ELSE <<1000, 2718, 7389, 20086, 54598, 148413, 403429, 1096633, 2980958,
           8103084, 22026466, 59874142, 162754791>>[q + 1]

\* ONE * e^(r/ONE) for 0 <= r < ONE, by the series 1 + r + r^2/2! + ... + r^7/7!
ExpSeries(r) ==
    LET t2 == (r * r) \div (2 * ONE)
        t3 == (t2 * r) \div (3 * ONE)
        t4 == (t3 * r) \div (4 * ONE)
        t5 == (t4 * r) \div (5 * ONE)
        t6 == (t5 * r) \div (6 * ONE)
        t7 == (t6 * r) \div (7 * ONE)
    IN  ONE + r + t2 + t3 + t4 + t5 + t6 + t7

\* torch.exp(x), x and the result in units of 1/ONE
Exp(x) ==
    LET q == x \div ONE
        f == ExpSeries(x % ONE)
        e == ExpInt(q)
    IN  (e \div ONE) * f + ((e % ONE) * f) \div ONE

\* floor of the square root
RECURSIVE IsqrtBetween(_, _, _)
IsqrtBetween(n, lo, hi) ==
    IF lo >= hi THEN lo
    ELSE LET m == (lo + hi + 1) \div 2
         IN  IF m * m <= n THEN IsqrtBetween(n, m, hi) ELSE IsqrtBetween(n, lo, m - 1)

\* sqrt(v) for v in units of 1/ONE, in units of 1/ONE
Sqrt(v) == IsqrtBetween(v * ONE, 0, 46000)

(***************************** the network **********************************)
\* self.variance_lower_bound = 0.001, in units of 1/ONE
variance_lower_bound == 1

\* the default of num_samples
default_num_samples == 50

WeightSeeds == {0, 1, 2}

\* nn.Linear(n_in, n_out): a weight matrix and a bias, at some initial value
WeightAt(seed, l, r, c) == <<1, -1, 0>>[((seed * 2 + l + r * 2 + c) % 3) + 1]

BiasAt(seed, l, r) == <<0, 1, -9, -1>>[((seed + l * 3 + r) % 4) + 1]

Linear(seed, l, n_in, n_out) ==
    [W |-> [r \in 1..n_out |-> [c \in 1..n_in |-> WeightAt(seed, l, r, c)]],
     b |-> [r \in 1..n_out |-> BiasAt(seed, l, r)]]

\* for i in range(len(layer_sizes) - 1): self.layers.append(nn.Linear(...))
ModuleList(sizes, seed) ==
    [i \in 1..(Len(sizes) - 1) |-> Linear(seed, i, sizes[i], sizes[i + 1])]

\* layer(x) for one row x
ApplyLinear(layer, x) ==
    [r \in 1..Len(layer.W) |-> Dot(layer.W[r], x) + layer.b[r]]

Relu(v) == [k \in 1..Len(v) |-> IF v[k] > 0 THEN v[k] ELSE 0]

\* x after the layers self.layers[from], ..., self.layers[-1], relu on all but the last
RECURSIVE Through(_, _, _)
Through(ls, from, x) ==
    IF from = Len(ls) THEN ApplyLinear(ls[from], x)
    ELSE Through(ls, from + 1, Relu(ApplyLinear(ls[from], x)))

\* the floor forgotten: var = torch.log(1 + torch.exp(var_z))
VarOf_NoLowerBound(var_z) == [k \in 1..Len(var_z) |-> Softplus(var_z[k])]

\* var = torch.log(1 + torch.exp(var_z)) + self.variance_lower_bound
VarOf(var_z) == [k \in 1..Len(var_z) |-> Softplus(var_z[k]) + variance_lower_bound]

\* forward(x): (mean, var); mean whole, var in units of 1/ONE
Forward(ls, x) ==
    LET out == [i \in 1..Len(x) |-> Through(ls, 1, x[i])]
        mid == Len(out[1]) \div 2
    IN  [mean |-> [i \in 1..Len(x) |-> SubSeq(out[i], 1, mid)],
         var  |-> [i \in 1..Len(x) |-> VarOf(SubSeq(out[i], mid + 1, Len(out[i])))]]

(***************************** inputs ***************************************)
LayerSizeChoices == {<<1, 2>>, <<1, 3>>, <<2, 4>>, <<1, 2, 2>>}

Rows(width) == IF width = 1 THEN {<<1>>, <<-1>>} ELSE {<<1, -1>>, <<0, 1>>}

\* the non-empty batches of at most MaxBatch rows
Batches(width) ==
    UNION {[1..n -> Rows(width)] : n \in 1..MaxBatch}

NoiseSeeds == {0, 1}

\* one standard-normal draw of rsample's noise, in units of 1/ONE
EpsAt(seed, i, s, k) == <<0, 700, -1500, 300>>[((seed + i + s * 2 + k * 3) % 4) + 1]

\* num_samples: <<>> is None, <<n>> is n
NumSamplesChoices == {<<>>} \cup {<<n>> : n \in 1..MaxSamples}

EpochChoices == {<<>>, <<0>>, <<1>>}

(***************************** the teacher **********************************)
\* an ensemble: per member, per class, the member's logit per unit of input
TeacherChoices ==
    { << <<1, -2>>, <<0, 3>> >>,
      << <<2, 0, -1>>, <<-1, 1, 3>> >> }

\* teacher.get_logits(inputs): batch x members x classes
GetLogits(t, x) ==
    [i \in 1..Len(x) |-> [m \in 1..Len(t) |->
        [k \in 1..Len(t[m]) |-> t[m][k] * SeqSum(x[i]) + k]]]

\* logits - torch.stack([logits[:, :, -1]], axis=-1)
ScaledLogits(logits) ==
    [i \in 1..Len(logits) |-> [m \in 1..Len(logits[i]) |->
        [k \in 1..Len(logits[i][m]) |-> logits[i][m][k] - Last(logits[i][m])]]]

\* t[:, :, :-1]
DropLastColumn(t) ==
    [i \in 1..Len(t) |-> [m \in 1..Len(t[i]) |-> SubSeq(t[i][m], 1, Len(t[i][m]) - 1)]]

\* the centred logits returned without dropping the last column
GenerateTeacherPredictions_KeepColumn(t, scale, x) ==
    LET logits == GetLogits(t, x)
    IN  IF scale THEN ScaledLogits(logits) ELSE logits

\* _generate_teacher_predictions(inputs)
GenerateTeacherPredictions(t, scale, x) ==
    LET logits == GetLogits(t, x)
    IN  IF scale THEN DropLastColumn(ScaledLogits(logits)) ELSE logits

(***************************** sampling *************************************)
\* self.output_size
output_size == Last(layer_sizes)

\* the default taken to be one draw
NumSamples_OneDraw(num_samples) ==
    IF num_samples = <<>> THEN 1 ELSE num_samples[1]

\* if num_samples is None: num_samples = 50
NumSamples(num_samples) ==
    IF num_samples = <<>> THEN default_num_samples ELSE num_samples[1]

\* MultivariateNormal(loc=mean_i, covariance_matrix=diag(var_i)).rsample([n]):
\* loc + sqrt(var) * eps per draw; n x len(mean_i), in units of 1/ONE
Rsample(mean_i, var_i, n, seed, i) ==
    LET scale_tril == [k \in 1..Len(var_i) |-> Sqrt(var_i[k])]
    IN  [s \in 1..n |-> [k \in 1..Len(mean_i) |->
            mean_i[k] * ONE + (scale_tril[k] * EpsAt(seed, i, s, k)) \div ONE]]

\* the distribution cannot be sampled when loc and the covariance disagree in size
SamplerRaises(mean_i, var_i) == Len(mean_i) # Len(var_i)

\* samples[i, :, :] = block: block's width must be the slot's, or 1 (broadcast)
AssignRaises(block_width, slot) == block_width # slot /\ block_width # 1

AssignBlock(block, slot) ==
    [s \in 1..Len(block) |-> [k \in 1..slot |->
        IF Len(block[s]) = 1 THEN block[s][1] ELSE block[s][k]]]

\* predict, lines 77-87: the samples, or the failure, of one call
PredictSamples(ls, input_, n, seed) ==
    LET out  == Forward(ls, input_)
        slot == output_size \div 2
        bad  == \E i \in 1..Len(input_) :
                    \/ SamplerRaises(out.mean[i], out.var[i])
                    \/ AssignRaises(Len(out.mean[i]), slot)
    IN  [raised |-> bad,
         value  |-> IF bad THEN <<>>
                    ELSE [i \in 1..Len(input_) |->
                            AssignBlock(Rsample(out.mean[i], out.var[i], n, seed, i), slot)]]

\* predict_logits drawing with covariance_matrix taken as the scale: loc + var * eps
PredictLogitsSamples_VarAsScale(ls, input_, n, seed) ==
    LET out == Forward(ls, input_)
        bad == \E i \in 1..Len(input_) : SamplerRaises(out.mean[i], out.var[i])
    IN  [raised |-> bad,
         value  |-> IF bad THEN <<>>
                    ELSE [i \in 1..Len(input_) |-> [s \in 1..n |->
                            [k \in 1..Len(out.mean[i]) |->
                                out.mean[i][k] * ONE
                                + (out.var[i][k] * EpsAt(seed, i, s, k)) \div ONE]]]]

\* predict_logits, lines 102-112: the samples, or the failure, of one call
PredictLogitsSamples(ls, input_, n, seed) ==
    LET out  == Forward(ls, input_)
        slot == output_size \div 2
        bad  == \E i \in 1..Len(input_) :
                    \/ SamplerRaises(out.mean[i], out.var[i])
                    \/ AssignRaises(Len(out.mean[i]), slot)
    IN  [raised |-> bad,
         value  |-> IF bad THEN <<>>
                    ELSE [i \in 1..Len(input_) |->
                            AssignBlock(Rsample(out.mean[i], out.var[i], n, seed, i), slot)]]

\* a plain softmax: torch.exp(samples) / torch.sum(torch.exp(samples), dim=-1)
SoftmaxDraw_Plain(draw) ==
    LET e == [k \in 1..Len(draw) |-> Exp(draw[k])]
    IN  [k \in 1..Len(draw) |-> [n |-> e[k], d |-> SeqSum(e)]]

\* torch.exp(samples) / (torch.sum(torch.exp(samples), dim=-1, keepdim=True) + 1)
\* for one draw: each entry the exact fraction n/d
SoftmaxDraw(draw) ==
    LET e == [k \in 1..Len(draw) |-> Exp(draw[k])]
    IN  [k \in 1..Len(draw) |-> [n |-> e[k], d |-> SeqSum(e) + ONE]]

SoftmaxSamples(samples) ==
    [i \in 1..Len(samples) |-> [s \in 1..Len(samples[i]) |-> SoftmaxDraw(samples[i][s])]]

(***************************** the optimizer ********************************)
\* whether the base class registers the teacher as a sub-module of the model:
\* the teacher is a borrowed reference, so it does not
TeacherRegistered == FALSE

\* self.parameters(): the modules whose parameters the model has registered
Parameters == {"layers"} \cup (IF TeacherRegistered THEN {"teacher"} ELSE {})

\* the optimizer built over the teacher's parameters as well
Adam_WithTeacher(params) == params \cup {"teacher"}

\* torch_optim.Adam(self.parameters(), lr=self.learning_rate)
Adam(params) == params

(***************************** the object ***********************************)
NoCall == [op |-> "none"]

Call(op, input, num_samples, seed, raised, value) ==
    [op |-> op, input |-> input, num_samples |-> num_samples, seed |-> seed,
     raised |-> raised, value |-> value]

NetInit ==
    /\ state = "new"
    /\ layer_sizes = <<>>
    /\ scale_teacher_logits = FALSE
    /\ layers = <<>>
    /\ optimizer = {}
    /\ teacher = <<>>
    /\ ret = NoCall

\* LogitsProbabilityDistribution(layer_sizes, teacher, scale_teacher_logits=...)
Construct ==
    /\ state = "new"
    /\ \E sizes \in LayerSizeChoices, t \in TeacherChoices,
          scale \in BOOLEAN, seed \in WeightSeeds :
            /\ layer_sizes' = sizes
            /\ teacher' = t
            /\ scale_teacher_logits' = scale
            /\ layers' = ModuleList(sizes, seed)
    /\ optimizer' = Adam(Parameters)
    /\ state' = "constructed"
    /\ ret' = Call("__init__", <<>>, <<>>, 0, FALSE, <<>>)
    /\ UNCHANGED <<cifarVars, metricVars, sinusVars>>

\* forward(x)
ForwardCall ==
    /\ state = "constructed"
    /\ ret = NoCall
    /\ \E x \in Batches(layer_sizes[1]) :
            ret' = Call("forward", x, <<>>, 0, FALSE, Forward(layers, x))
    /\ UNCHANGED <<state, layer_sizes, scale_teacher_logits, layers, optimizer, teacher,
                 cifarVars, metricVars, sinusVars>>

\* _generate_teacher_predictions(inputs)
TeacherPredictionsCall ==
    /\ state = "constructed"
    /\ ret = NoCall
    /\ \E x \in Batches(layer_sizes[1]) :
            ret' = Call("_generate_teacher_predictions", x, <<>>, 0, FALSE,
                        GenerateTeacherPredictions(teacher, scale_teacher_logits, x))
    /\ UNCHANGED <<state, layer_sizes, scale_teacher_logits, layers, optimizer, teacher,
                 cifarVars, metricVars, sinusVars>>

\* predict(input_, num_samples)
Predict ==
    /\ state = "constructed"
    /\ ret = NoCall
    /\ \E x \in Batches(layer_sizes[1]), ns \in NumSamplesChoices, seed \in NoiseSeeds :
            LET r == PredictSamples(layers, x, NumSamples(ns), seed)
            IN  ret' = Call("predict", x, ns, seed, r.raised,
                            IF r.raised THEN <<>> ELSE SoftmaxSamples(r.value))
    /\ UNCHANGED <<state, layer_sizes, scale_teacher_logits, layers, optimizer, teacher,
                 cifarVars, metricVars, sinusVars>>

\* predict_logits(input_, num_samples)
PredictLogits ==
    /\ state = "constructed"
    /\ ret = NoCall
    /\ \E x \in Batches(layer_sizes[1]), ns \in NumSamplesChoices, seed \in NoiseSeeds :
            LET r == PredictLogitsSamples(layers, x, NumSamples(ns), seed)
            IN  ret' = Call("predict_logits", x, ns, seed, r.raised, r.value)
    /\ UNCHANGED <<state, layer_sizes, scale_teacher_logits, layers, optimizer, teacher,
                 cifarVars, metricVars, sinusVars>>

\* _learning_rate_condition(epoch)
LearningRateResult(epoch) == TRUE

LearningRateCondition ==
    /\ state = "constructed"
    /\ ret = NoCall
    /\ \E epoch \in EpochChoices :
            ret' = Call("_learning_rate_condition", epoch, <<>>, 0, FALSE,
                        LearningRateResult(epoch))
    /\ UNCHANGED <<state, layer_sizes, scale_teacher_logits, layers, optimizer, teacher,
                 cifarVars, metricVars, sinusVars>>

\* self.loss(outputs, teacher_predictions): the value is the loss function's, which
\* this model leaves uninterpreted
Loss(outputs, teacher_predictions) ==
    <<"gaussian_neg_log_likelihood", outputs, teacher_predictions>>

\* calculate_loss(outputs, teacher_predictions) on one training batch
CalculateLoss ==
    /\ state = "constructed"
    /\ ret = NoCall
    /\ \E x \in Batches(layer_sizes[1]) :
            ret' = Call("calculate_loss", x, <<>>, 0, FALSE,
                        Loss(Forward(layers, x),
                             GenerateTeacherPredictions(teacher, scale_teacher_logits, x)))
    /\ UNCHANGED <<state, layer_sizes, scale_teacher_logits, layers, optimizer, teacher,
                 cifarVars, metricVars, sinusVars>>

\* self.optimizer.step(): every parameter the optimizer holds may move; nothing else does
OptimizerStep ==
    /\ state = "constructed"
    /\ ret = NoCall
    /\ IF "layers" \in optimizer
       THEN \E seed \in WeightSeeds :
                /\ ModuleList(layer_sizes, seed) # layers
                /\ layers' = ModuleList(layer_sizes, seed)
       ELSE UNCHANGED layers
    /\ IF "teacher" \in optimizer
       THEN teacher' = [m \in 1..Len(teacher) |->
                            [k \in 1..Len(teacher[m]) |-> teacher[m][k] - 1]]
       ELSE UNCHANGED teacher
    /\ ret' = Call("optimizer.step", <<>>, <<>>, 0, FALSE, <<>>)
    /\ UNCHANGED <<state, layer_sizes, scale_teacher_logits, optimizer, cifarVars, metricVars, sinusVars>>

\* the caller takes the returned value (or the exception); the object is idle again
Return ==
    /\ ret # NoCall
    /\ ret' = NoCall
    /\ UNCHANGED <<state, layer_sizes, scale_teacher_logits, layers, optimizer, teacher,
                 cifarVars, metricVars, sinusVars>>

Next ==
    \/ Construct
    \/ Return
    \/ ForwardCall
    \/ TeacherPredictionsCall
    \/ Predict
    \/ PredictLogits
    \/ LearningRateCondition
    \/ CalculateLoss
    \/ OptimizerStep


(***************************** Cifar10Data **********************************)
MaxInd == 2

NoCifarCall == [op |-> "none"]

\* rows of one group of an h5 file: row j of each dataset belongs to example first + j
Group(first, rows) ==
    [data        |-> [j \in 1..rows |-> [kind |-> "img", of |-> first + j]],
     predictions |-> [j \in 1..rows |-> [kind |-> "preds", of |-> first + j]],
     logits      |-> [j \in 1..rows |-> [kind |-> "logits", of |-> first + j]],
     targets     |-> [j \in 1..rows |-> [kind |-> "target", of |-> first + j]]]

\* ensemble_predictions.h5
H5File == [train |-> Group(100, 3), test |-> Group(200, 2)]

\* ind: None, or an array of row indices (from 0) into the group
IndChoices(rows) ==
    {[none |-> TRUE, idx |-> <<>>]}
    \cup {[none |-> FALSE, idx |-> a] :
            a \in UNION {[1..n -> 0..(rows - 1)] : n \in 1..MaxInd}}

\* a[ind], ind an index array
TakeRows(a, idx) == [j \in 1..Len(idx) |-> a[idx[j] + 1]]

\* a Python tuple, which has no item assignment
PyTuple(items) == [kind |-> "tuple", items |-> items]

\* obj[i] = value raises TypeError
SetItemRaises(obj) == obj.kind = "tuple"

\* CustomSet(img, predictions, logits, targets, transform)
CustomSet(img, predictions, logits, targets, transform) ==
    [data |-> <<img, predictions, logits>>, targets |-> targets,
     transform |-> transform, input_size |-> Len(img)]

\* CustomSet.__len__
SetLen(set) == set.input_size

\* Image.fromarray(img), then self.transform(img): a tensor of the same example;
\* the augmenting transform may flip it
TransformImage(img, transform, flip) ==
    [kind |-> "tensor", of |-> img.of, shows |-> img.kind,
     flipped |-> (transform = "augment" /\ flip)]

\* torch.tensor(a)
TorchTensor(a) == [kind |-> "tensor", of |-> a.of, shows |-> a.kind, flipped |-> FALSE]

\* CustomSet.__getitem__(index), index from 0
GetItem(set, index, flip) ==
    << << TransformImage(set.data[1][index + 1], set.transform, flip),
          TorchTensor(set.data[2][index + 1]),
          TorchTensor(set.data[3][index + 1]) >>,
       TorchTensor(set.targets[index + 1]) >>

CifarInit ==
    /\ cstate = "new"
    /\ cset = <<>>
    /\ cret = NoCifarCall

\* Cifar10Data(ind, train, augmentation, corrupted)
CifarConstruct ==
    /\ cstate = "new"
    /\ \E train \in BOOLEAN, augmentation \in BOOLEAN, corrupted \in BOOLEAN :
        LET grp == IF train THEN H5File.train ELSE H5File.test
        IN  \E ind \in IndChoices(Len(grp.data)) :
            LET transform == IF augmentation THEN "augment" ELSE "to_tensor"
                data == IF ind.none
                        THEN PyTuple(<<grp.data, grp.predictions, grp.logits>>)
                        ELSE PyTuple(<<TakeRows(grp.data, ind.idx),
                                       TakeRows(grp.predictions, ind.idx),
                                       TakeRows(grp.logits, ind.idx)>>)
                targets == IF ind.none THEN grp.targets ELSE TakeRows(grp.targets, ind.idx)
                args == [ind |-> ind, train |-> train, augmentation |-> augmentation,
                         corrupted |-> corrupted]
            IN  IF corrupted /\ SetItemRaises(data)
                THEN \* data[0] = np.concatenate(...) raises; self.set is never assigned
                     /\ cstate' = "raised"
                     /\ cset' = <<>>
                     /\ cret' = [op |-> "__init__", args |-> args, raised |-> "TypeError"]
                ELSE /\ cstate' = "constructed"
                     /\ cset' = CustomSet(data.items[1], data.items[2], data.items[3],
                                          targets, transform)
                     /\ cret' = [op |-> "__init__", args |-> args, raised |-> ""]
    /\ UNCHANGED <<netVars, metricVars, sinusVars>>

\* set[index] for 0 <= index < len(set)
CifarGetItem ==
    /\ cstate = "constructed"
    /\ cret = NoCifarCall
    /\ \E index \in 0..(SetLen(cset) - 1), flip \in BOOLEAN :
            cret' = [op |-> "__getitem__", index |-> index,
                     value |-> GetItem(cset, index, flip)]
    /\ UNCHANGED <<cstate, cset, netVars, metricVars, sinusVars>>

\* the caller takes the result
CifarReturn ==
    /\ cret # NoCifarCall
    /\ cstate # "raised"
    /\ cret' = NoCifarCall
    /\ UNCHANGED <<cstate, cset, netVars, metricVars, sinusVars>>

CifarNext ==
    \/ CifarConstruct
    \/ CifarGetItem
    \/ CifarReturn

(***************************** uncertainty_rotation *************************)
MaxDraws == 2

\* num_points = 10
num_points == 10

\* probabilities are held in units of 1/PROB, entropies in units of 1/(6 * 10000)
PROB == 2 * 2

\* round(10000 * -(j/24) ln(j/24)) for j = 0, ..., 24
NegXLogX ==
    <<0, 1324, 2071, 2599, 2986, 3268, 3466, 3594, 3662, 3678, 3648, 3576, 3466,
      3321, 3144, 2938, 2703, 2443, 2158, 1849, 1519, 1168, 798, 408, 0>>

\* the probability vectors over K classes, K = 2 or 3
Simplex(K) ==
    IF K = 2
    THEN << <<0, 4>>, <<1, 3>>, <<2, 2>>, <<3, 1>>, <<4, 0>> >>
    ELSE << <<0, 0, 4>>, <<0, 1, 3>>, <<0, 2, 2>>, <<0, 3, 1>>, <<0, 4, 0>>,
            <<1, 0, 3>>, <<1, 1, 2>>, <<1, 2, 1>>, <<1, 3, 0>>, <<2, 0, 2>>,
            <<2, 1, 1>>, <<2, 2, 0>>, <<3, 0, 1>>, <<3, 1, 0>>, <<4, 0, 0>> >>

PredictionSeeds == 0..59

\* model.predict(rotated_data_set): num_points x draws x K, each draw on the simplex
PredictedDistribution(seed, draws, K) ==
    [i \in 1..num_points |-> [s \in 1..draws |->
        Simplex(K)[((seed + i + (s - 1) * ((i + seed) % 4) * (1 + seed \div 8))
                    % Len(Simplex(K))) + 1]]]

\* the entropy -sum_k p_k ln p_k of a vector p held in units of 1/24, times 10000
Entropy24(p) == SeqSum([k \in 1..Len(p) |-> NegXLogX[p[k] + 1]])

\* metrics.uncertainty_separation_entropy(predicted_distribution, None): per input,
\* total = entropy of the draws' mean, aleatoric = mean of the draws' entropies,
\* epistemic = total - aleatoric; returned as (total, epistemic, aleatoric)
uncertainty_separation_entropy(pd) ==
    LET draws == Len(pd[1])
        unit  == 24 \div (PROB * draws)
        mean(i) == [k \in 1..Len(pd[i][1]) |->
                        SeqSum([s \in 1..draws |-> pd[i][s][k]]) * unit]
        total == [i \in 1..Len(pd) |-> 6 * Entropy24(mean(i))]
        aleatoric == [i \in 1..Len(pd) |->
                        (6 \div draws) * SeqSum([s \in 1..draws |->
                            Entropy24([k \in 1..Len(pd[i][s]) |-> pd[i][s][k] * 6])])]
        epistemic == [i \in 1..Len(pd) |-> total[i] - aleatoric[i]]
    IN  <<total, epistemic, aleatoric>>

\* the returned triple taken in the reverse order
Unpack_Reversed(result) ==
    [tot_unc |-> result[3], ep_unc |-> result[2], al_unc |-> result[1]]

\* tot_unc, ep_unc, al_unc = metrics.uncertainty_separation_entropy(...)
Unpack(result) ==
    [tot_unc |-> result[1], ep_unc |-> result[2], al_unc |-> result[3]]

NoPlot == [op |-> "none"]

MetricsInit == mret = NoPlot

\* uncertainty_rotation(model, test_sample, ax): the three series plotted on ax,
\* under the legend ["Total", "Epistemic", "Aleatoric"]
UncertaintyRotation ==
    /\ mret = NoPlot
    /\ \E seed \in PredictionSeeds, draws \in 1..MaxDraws, K \in {2, 3} :
        LET predicted_distribution == PredictedDistribution(seed, draws, K)
            u == Unpack(uncertainty_separation_entropy(predicted_distribution))
        IN  mret' = [op |-> "uncertainty_rotation",
                     predicted_distribution |-> predicted_distribution,
                     Total |-> u.tot_unc, Epistemic |-> u.ep_unc, Aleatoric |-> u.al_unc]
    /\ UNCHANGED <<netVars, cifarVars, sinusVars>>

\* plt.show() returns
MetricsReturn ==
    /\ mret # NoPlot
    /\ mret' = NoPlot
    /\ UNCHANGED <<netVars, cifarVars, sinusVars>>

MetricsNext ==
    \/ UncertaintyRotation
    \/ MetricsReturn

(***************************** GaussianSinus ********************************)
MaxNSamples == 3

NoSinusCall == [op |-> "none"]

\* store_file before anything was written to it
NoFile == [exists |-> FALSE, rows |-> <<>>]

NoDataset == [n_samples |-> 0, train |-> FALSE]

\* the whole points of [-3, 3] that np.random.uniform is taken to hit
XGrid == (0 - 3)..3

\* np.sin(x) on XGrid, in units of 1/ONE
SinTable == <<0 - 141, 0 - 909, 0 - 841, 0, 841, 909, 141>>

Sin(x) == SinTable[x + 4]

\* 0.15 * 1 / (1 + np.exp(-x)) on XGrid, in units of 1/ONE
SigmaTable == <<7, 18, 40, 75, 110, 132, 143>>

Sigma(x) == SigmaTable[x + 4]

\* sigma **= 2: the diagonal of the covariance, in units of 1/ONE^2
SigmaSquared(x) == Sigma(x) * Sigma(x)

\* the scale multivariate_normal draws with on a diagonal covariance: its square root
StdOf(cov) == CHOOSE s \in 0..ONE : s * s = cov

SampleSeeds == {0, 1}

\* np.random.uniform(low=-3.0, high=3.0, size=n_samples): draw i of a seed, in units of 1/ONE
UniformAt(seed, i) == ((seed * 3 + i * 2) % 7) - 3

\* the standard normal noise behind draw i of np.random.multivariate_normal
NormalAt(seed, i) == ((seed + i) % 3) - 1

\* np.random.multivariate_normal(mean=mu, cov=np.diag(sigma))
MultivariateNormal(x, seed) ==
    [i \in 1..Len(x) |-> Sin(x[i]) + StdOf(SigmaSquared(x[i])) * NormalAt(seed, i)]

\* np.column_stack((x, y)), x brought to units of 1/ONE
ColumnStack(x, y) == [i \in 1..Len(x) |-> <<x[i] * ONE, y[i]>>]

\* np.random.shuffle(combined_data): the rows in another order (a rotation by k)
Shuffle(rows, k) ==
    [i \in 1..Len(rows) |-> rows[((i - 1 + k) % Len(rows)) + 1]]

\* a number written by savetxt: its "%.18e" text
Text(v) == [text |-> v]

\* np.array(..., dtype=np.float32) of the fields read back: the numbers the texts spell
Float32(fields) == [j \in 1..Len(fields) |-> fields[j].text]

\* np.savetxt(self.file, combined_data, delimiter=","): one line per row, no header
SaveTxt(combined_data) ==
    [exists |-> TRUE,
     rows   |-> [i \in 1..Len(combined_data) |->
                    [j \in 1..Len(combined_data[i]) |-> Text(combined_data[i][j])]]]

\* sample_new_data with self.train: the file it writes
SampleNewData(n_samples, seed, k) ==
    LET x == [i \in 1..n_samples |-> UniformAt(seed, i)]
        y == MultivariateNormal(x, seed)
    IN  SaveTxt(Shuffle(ColumnStack(x, y), k))

\* validate_dataset: the assert at line 69 fails
ValidateRaises(f, n_samples) == n_samples - 1 # Len(f.rows)

\* __len__
SinusLen(self) == self.n_samples

\* the row __getitem__'s loop stops at; <<>> stands for None (no row has count == index)
RowAt(f, index) == IF index < Len(f.rows) THEN <<f.rows[index + 1]>> ELSE <<>>

\* sample[:-1] and sample[-1] on None
SubscriptRaises(sample) == sample = <<>>

\* __getitem__ when it returns: (inputs, targets)
SinusItem(sample) ==
    LET row == sample[1]
    IN  <<Float32(SubSeq(row, 1, Len(row) - 1)), Float32(<<row[Len(row)]>>)>>

SinusInit ==
    /\ file = NoFile
    /\ sstate = "new"
    /\ dataset = NoDataset
    /\ sret = NoSinusCall

\* GaussianSinus(store_file, train, reuse_data, n_samples)
SinusConstruct ==
    /\ sret = NoSinusCall
    /\ \E train \in BOOLEAN, reuse_data \in BOOLEAN, n_samples \in 1..MaxNSamples,
          seed \in SampleSeeds :
        \E k \in 0..(n_samples - 1) :
        LET args == [train |-> train, reuse_data |-> reuse_data, n_samples |-> n_samples]
            raised == IF file.exists /\ reuse_data
                      THEN IF ValidateRaises(file, n_samples) THEN "AssertionError" ELSE ""
                      ELSE IF train THEN "" ELSE "UnboundLocalError"   \* y at line 62
        IN  /\ file' = IF raised = "" /\ ~(file.exists /\ reuse_data)
                       THEN SampleNewData(n_samples, seed, k)
                       ELSE file
            /\ sstate' = IF raised = "" THEN "constructed" ELSE "raised"
            /\ dataset' = IF raised = ""
                          THEN [n_samples |-> n_samples, train |-> train]
                          ELSE NoDataset
            /\ sret' = [op |-> "__init__", args |-> args, raised |-> raised]
    /\ UNCHANGED <<netVars, cifarVars, metricVars>>

\* dataset[index] for 0 <= index < len(dataset)
SinusGetItem ==
    /\ sstate = "constructed"
    /\ sret = NoSinusCall
    /\ \E index \in 0..(SinusLen(dataset) - 1) :
        LET sample == RowAt(file, index)
        IN  sret' = IF SubscriptRaises(sample)
                    THEN [op |-> "__getitem__", index |-> index, raised |-> "TypeError",
                          value |-> <<>>]
                    ELSE [op |-> "__getitem__", index |-> index, raised |-> "",
                          value |-> SinusItem(sample)]
    /\ UNCHANGED <<file, sstate, dataset, netVars, cifarVars, metricVars>>

\* the caller takes the result, or the run that raised has ended
SinusReturn ==
    /\ sret # NoSinusCall
    /\ sret' = NoSinusCall
    /\ UNCHANGED <<file, sstate, dataset, netVars, cifarVars, metricVars>>

SinusNext ==
    \/ SinusConstruct
    \/ SinusGetItem
    \/ SinusReturn

(***************************** specifications *******************************)
Init == NetInit /\ CifarInit /\ MetricsInit /\ SinusInit

Spec == Init /\ [][Next]_vars

SpecCifar == Init /\ [][CifarNext]_vars

SpecMetrics == Init /\ [][MetricsNext]_vars

SpecSinus == Init /\ [][SinusNext]_vars

(***************************** claims ***************************************)
\* the draws of a returned sample tensor t: the pairs <<i, s>>
Draws(t) == {<<i, s>> \in (1..Len(t)) \X (1..default_num_samples) : s <= Len(t[i])}

\* C1: every entry of the variance vector forward returns is at least
\* variance_lower_bound, and so is neither zero nor negative.
C1_VarianceAtLeastLowerBound ==
    ret.op = "forward" =>
        \A i \in 1..Len(ret.value.var) : \A k \in 1..Len(ret.value.var[i]) :
            /\ ret.value.var[i][k] >= variance_lower_bound
            /\ ret.value.var[i][k] > 0

\* forward has returned a variance whose softplus part vanished (the entry sits on
\* the bound) next to one well above it
C1_Witness ==
    /\ ret.op = "forward"
    /\ \E i \in 1..Len(ret.value.var) : \E k \in 1..Len(ret.value.var[i]) :
            ret.value.var[i][k] = variance_lower_bound
    /\ \E i \in 1..Len(ret.value.var) : \E k \in 1..Len(ret.value.var[i]) :
            ret.value.var[i][k] > ONE

\* C2: a layer_sizes list with an odd last entry is rejected at construction, so
\* forward never returns on such a model, and never returns a mean and a variance
\* of different lengths.
C2_OddWidthRejected ==
    ret.op = "forward" =>
        /\ Last(layer_sizes) % 2 = 0
        /\ \A i \in 1..Len(ret.input) :
                Len(ret.value.mean[i]) = Len(ret.value.var[i])

\* C3: with scale_teacher_logits, _generate_teacher_predictions returns per example
\* and member the teacher's logits minus its last-class logit, without the last
\* (zero) column; without it, the teacher's get_logits result unchanged.
C3_TeacherPredictions ==
    ret.op = "_generate_teacher_predictions" =>
        LET logits == GetLogits(teacher, ret.input)
        IN  IF scale_teacher_logits
            THEN /\ Len(ret.value) = Len(logits)
                 /\ \A i \in 1..Len(logits) :
                        /\ Len(ret.value[i]) = Len(logits[i])
                        /\ \A m \in 1..Len(logits[i]) :
                            LET K == Len(logits[i][m])
                            IN  /\ Len(ret.value[i][m]) = K - 1
                                /\ \A j \in 1..(K - 1) :
                                     ret.value[i][m][j] = logits[i][m][j] - logits[i][m][K]
                                /\ Last(ScaledLogits(logits)[i][m]) = 0
            ELSE ret.value = logits

\* centred teacher predictions have been returned where the last-class logit was not 0
C3_Witness ==
    /\ ret.op = "_generate_teacher_predictions"
    /\ scale_teacher_logits
    /\ Len(ret.input) > 1
    /\ \E i \in 1..Len(ret.input) : Last(GetLogits(teacher, ret.input)[i][1]) # 0

\* C4 as stated: every draw predict returns has non-negative entries that sum to 1
\* over the class axis.
C4_DrawsSumToOne ==
    (ret.op = "predict" /\ ~ret.raised) =>
        \A p \in Draws(ret.value) :
            LET draw == ret.value[p[1]][p[2]]
            IN  /\ \A k \in 1..Len(draw) : draw[k].n >= 0 /\ draw[k].d > 0
                /\ SeqSum([k \in 1..Len(draw) |-> draw[k].n]) = draw[1].d

\* C4 as amended: every draw predict returns has non-negative entries whose sum
\* over the class axis is S/(S+1), S the sum of the exponentials: below 1 by the
\* mass 1/(S+1) of the implicit extra class.
C4_DrawsSumBelowOne ==
    (ret.op = "predict" /\ ~ret.raised) =>
        \A p \in Draws(ret.value) :
            LET draw == ret.value[p[1]][p[2]]
                S    == SeqSum([k \in 1..Len(draw) |-> draw[k].n])
            IN  /\ \A k \in 1..Len(draw) :
                    draw[k].n >= 0 /\ draw[k].d > 0 /\ draw[k].d = draw[1].d
                /\ S + ONE = draw[1].d
                /\ S < draw[1].d

\* predict has returned the default number of draws, one of them with two classes
\* of non-zero probability
C4_Witness ==
    /\ ret.op = "predict"
    /\ ~ret.raised
    /\ ret.num_samples = <<>>
    /\ \E p \in Draws(ret.value) :
            /\ Len(ret.value[p[1]][p[2]]) = 2
            /\ \A k \in 1..2 : ret.value[p[1]][p[2]][k].n > 0

\* the transform exp(s_k) / (sum_j exp(s_j) + 1) of the raw samples
C5_Transform(samples) ==
    [i \in 1..Len(samples) |-> [s \in 1..Len(samples[i]) |->
        [k \in 1..Len(samples[i][s]) |->
            [n |-> Exp(samples[i][s][k]),
             d |-> SeqSum([j \in 1..Len(samples[i][s]) |-> Exp(samples[i][s][j])]) + ONE]]]]

\* C5: for the same input, num_samples and random draws, predict returns exactly
\* exp(s_k) / (sum_j exp(s_j) + 1) of the samples s that predict_logits returns, and
\* fails exactly when predict_logits fails.
C5_SameSampling ==
    /\ ret.op = "predict" =>
        LET l == PredictLogitsSamples(layers, ret.input, NumSamples(ret.num_samples), ret.seed)
        IN  /\ ret.raised = l.raised
            /\ ~ret.raised => ret.value = C5_Transform(l.value)
    /\ ret.op = "predict_logits" =>
        LET q == PredictSamples(layers, ret.input, NumSamples(ret.num_samples), ret.seed)
        IN  /\ ret.raised = q.raised
            /\ ~ret.raised => C5_Transform(ret.value) = SoftmaxSamples(q.value)

\* predict_logits has returned samples that differ from draw to draw
C5_Witness ==
    /\ ret.op = "predict_logits"
    /\ ~ret.raised
    /\ Len(ret.input) > 1
    /\ \E i \in 1..Len(ret.value) : ret.value[i][1] # ret.value[i][2]

C10_NeverIncrease ==
    ret.op = "_learning_rate_condition" => ret.value = FALSE

\* C8: the three series uncertainty_rotation obtains satisfy
\* total = aleatoric + epistemic at every input, and none is negative.
C8_Decomposition ==
    mret.op = "uncertainty_rotation" =>
        \A i \in 1..num_points :
            /\ mret.Total[i] = mret.Aleatoric[i] + mret.Epistemic[i]
            /\ mret.Total[i] >= 0
            /\ mret.Aleatoric[i] >= 0
            /\ mret.Epistemic[i] >= 0

\* the decomposition of draws that disagree: both parts are positive at some input
C8_Witness ==
    /\ mret.op = "uncertainty_rotation"
    /\ \E i \in 1..num_points : mret.Epistemic[i] > 0 /\ mret.Aleatoric[i] > 0
    /\ \E i \in 1..num_points : mret.Epistemic[i] = 0 /\ mret.Aleatoric[i] > 0

\* C9: for every combination of ind and corrupted, construction completes, the set
\* holds as many images as predictions, logits and targets, and __getitem__(i)
\* returns ((img, preds, logits), target) of one example.
C9_Organised ==
    /\ cstate # "raised"
    /\ cstate = "constructed" =>
        /\ Len(cset.data[1]) = Len(cset.data[2])
        /\ Len(cset.data[1]) = Len(cset.data[3])
        /\ Len(cset.data[1]) = Len(cset.targets)
    /\ cret.op = "__getitem__" =>
        LET item == cret.value
        IN  /\ item[1][1].shows = "img"
            /\ item[1][2].shows = "preds"
            /\ item[1][3].shows = "logits"
            /\ item[2].shows = "target"
            /\ item[1][1].of = item[1][2].of
            /\ item[1][1].of = item[1][3].of
            /\ item[1][1].of = item[2].of

\* C11: after a successful construction of a GaussianSinus dataset, by fresh sampling
\* or by reuse_data=True on a file that passed validate_dataset, len(dataset) equals
\* the number of rows of the backing file, and __getitem__(i) returns an
\* (inputs, target) pair for every index 0 <= i < len(dataset).
C11_LenEqualsRows ==
    sstate = "constructed" =>
        /\ SinusLen(dataset) = Len(file.rows)
        /\ sret.op = "__getitem__" =>
            /\ sret.raised = ""
            /\ Len(sret.value) = 2
            /\ Len(sret.value[2]) = 1

====
